---- MODULE Spec2Model ----
(***************************************************************************)
(* Model of import-instruments.py: the bulk load of the instruments CSV    *)
(* into the SQLite tables instruments, instruments_fts and                 *)
(* instruments_refresh_log.                                                *)
(*                                                                         *)
(* Strings are sequences of one-character strings, so that int() and       *)
(* float() are computed character by character.  A value that may be None  *)
(* is an option: None is the empty tuple, Some(v) the one-element tuple.   *)
(* A float is the exact decimal [num, scale], meaning num / 10^scale, with *)
(* no trailing zero in the fraction.                                       *)
(*                                                                         *)
(* Database errors (a locked or missing database file, a missing table)    *)
(* are not modelled: the database is there and has the three tables, and   *)
(* instruments.id is an INTEGER PRIMARY KEY that SQLite fills in.          *)
(*                                                                         *)
(* The script is single-threaded.  One action is one phase of the script;  *)
(* the for loop is one action per batch: from a batch boundary up to the   *)
(* next boundary, the end of the file or the row that raises.              *)
(***************************************************************************)
EXTENDS Integers, Sequences, FiniteSets, TLC

\* ------------------------------------------------------------------ bounds
\* longest field string drawn for the row transform
MaxLen == 2
\* number of successive runs of the script on the same CSV
MaxRuns == 2
\* largest number of complete batches in a CSV
MaxBatches == 1
\* largest number of rows of a CSV that has no complete batch
MaxSmall == 2

\* ------------------------------------------------------- program constants
batch_size == 1000

\* ------------------------------------------------------------- Python values
None == <<>>
Some(v) == <<v>>

Digits == {"0", "1", "2", "3", "4", "5", "6", "7", "8", "9"}

DigitVal(c) ==
  CASE c = "0" -> 0 [] c = "1" -> 1 [] c = "2" -> 2 [] c = "3" -> 3
    [] c = "4" -> 4 [] c = "5" -> 5 [] c = "6" -> 6 [] c = "7" -> 7
    [] c = "8" -> 8 [] c = "9" -> 9

RECURSIVE LStrip(_)
LStrip(s) == IF s # <<>> /\ s[1] = " " THEN LStrip(Tail(s)) ELSE s

RECURSIVE RStrip(_)
RStrip(s) ==
  IF s # <<>> /\ s[Len(s)] = " " THEN RStrip(SubSeq(s, 1, Len(s) - 1)) ELSE s

\* int() and float() ignore surrounding whitespace
Strip(s) == RStrip(LStrip(s))

AllDigits(s) == \A k \in 1..Len(s) : s[k] \in Digits

RECURSIVE DigitsVal(_)
DigitsVal(s) ==
  IF s = <<>> THEN 0
  ELSE 10 * DigitsVal(SubSeq(s, 1, Len(s) - 1)) + DigitVal(s[Len(s)])

IsSigned(t) == t # <<>> /\ t[1] \in {"-", "+"}
Unsigned(t) == IF IsSigned(t) THEN Tail(t) ELSE t
SignOf(t) == IF t # <<>> /\ t[1] = "-" THEN -1 ELSE 1

\* the text of a number without surrounding whitespace and sign
Body(s) == Unsigned(Strip(s))

\* int(s) returns: optional whitespace, optional sign, one or more decimal
\* digits; otherwise int(s) raises ValueError
IsInt(s) == Body(s) # <<>> /\ AllDigits(Body(s))

\* the value of int(s) when it returns
PyInt(s) == SignOf(Strip(s)) * DigitsVal(Body(s))

\* the exact decimal num / 10^scale without trailing zeros in the fraction
RECURSIVE Decimal(_, _)
Decimal(num, scale) ==
  IF scale > 0 /\ num % 10 = 0 THEN Decimal(num \div 10, scale - 1)
  ELSE [num |-> num, scale |-> scale]

\* index of the first decimal point of t, 0 when it has none
DotAt(t) ==
  IF \E k \in 1..Len(t) : t[k] = "."
  THEN CHOOSE k \in 1..Len(t) : t[k] = "." /\ \A j \in 1..(k - 1) : t[j] # "."
  ELSE 0

Whole(b) == IF DotAt(b) = 0 THEN b ELSE SubSeq(b, 1, DotAt(b) - 1)
Frac(b) == IF DotAt(b) = 0 THEN <<>> ELSE SubSeq(b, DotAt(b) + 1, Len(b))

\* float(s) returns: optional whitespace, optional sign, digits with at most
\* one decimal point and at least one digit; otherwise float(s) raises
\* ValueError (exponents, inf and nan need letters no field here contains)
IsFloat(s) ==
  LET b == Body(s)
  IN AllDigits(Whole(b)) /\ AllDigits(Frac(b)) /\ Len(Whole(b)) + Len(Frac(b)) > 0

\* the value of float(s) when it returns
PyFloat(s) ==
  LET b == Body(s)
      m == Decimal(DigitsVal(Whole(b) \o Frac(b)), Len(Frac(b)))
  IN [num |-> SignOf(Strip(s)) * m.num, scale |-> m.scale]

\* ------------------------------------------------------------ row transform
\* the sentinels of lines 63-67: the literal strings '-1' and ''
IsSentinel(s) == s \in {<<"-", "1">>, <<>>}

\* row[c] if row[c] else None
StrOrNone(s) == IF s # <<>> THEN Some(s) ELSE None

\* None if row['expiry'] in ['-1', ''] else row['expiry']
ExpiryField(s) == IF IsSentinel(s) THEN None ELSE Some(s)

\* None if s in ['-1', ''] else float(s) if s else None
FloatField(s) ==
  IF IsSentinel(s) THEN None ELSE IF s # <<>> THEN Some(PyFloat(s)) ELSE None

\* the expression of lines 64 and 67 raises
FloatFieldRaises(s) == ~IsSentinel(s) /\ s # <<>> /\ ~IsFloat(s)

\* variant: the lotsize sentinel becomes None, as for strike and tick_size
LotsizeField_NullSentinel(s) == IF IsSentinel(s) THEN None ELSE Some(PyInt(s))

\* 1 if row['lotsize'] in ['-1', ''] else int(row['lotsize'])
LotsizeField(s) == IF IsSentinel(s) THEN Some(1) ELSE Some(PyInt(s))

\* the expression of line 65 raises
LotsizeFieldRaises(s) == ~IsSentinel(s) /\ ~IsInt(s)

\* building the record of lines 57-71 raises ValueError
Raises(row) ==
  FloatFieldRaises(row.strike) \/ LotsizeFieldRaises(row.lotsize)
    \/ FloatFieldRaises(row.tick_size)

\* the record of lines 57-71 for a row whose conversions return; t is the
\* value of datetime.now().isoformat()
Transform(row, t) ==
  [symbol         |-> StrOrNone(row.symbol),
   brsymbol       |-> StrOrNone(row.brsymbol),
   name           |-> StrOrNone(row.name),
   exchange       |-> StrOrNone(row.exchange),
   token          |-> StrOrNone(row.token),
   expiry         |-> ExpiryField(row.expiry),
   strike         |-> FloatField(row.strike),
   lotsize        |-> LotsizeField(row.lotsize),
   instrumenttype |-> StrOrNone(row.instrumenttype),
   tick_size      |-> FloatField(row.tick_size),
   created_at     |-> t,
   updated_at     |-> t,
   brexchange     |-> StrOrNone(row.brexchange)]

\* --------------------------------------------------------------- the CSV file
\* A CSV file is described by its number of data rows n and by one row, at
\* index at (0-based, -1 for none), that differs from the others in kind.
Kinds == {"sentinel", "badstrike", "badlot", "badtick", "notype"}
BadKinds == {"badstrike", "badlot", "badtick"}
\* the kinds tried in the files that hold complete batches
LargeKinds == {"sentinel", "badlot", "notype"}

SmallSizes == 0..MaxSmall
LargeSizes == {k * batch_size + 1 : k \in 1..MaxBatches}

CsvFile(n, a, k) == [exists |-> TRUE, n |-> n, at |-> a, kind |-> k]

\* a missing file; files of every size without special row; small files with
\* the special row anywhere; large files whose special row is the last row of
\* the first batch or the last row of the file
CsvFiles ==
  {[exists |-> FALSE, n |-> 0, at |-> -1, kind |-> "good"]}
  \cup {CsvFile(n, -1, "good") : n \in SmallSizes \cup LargeSizes}
  \cup UNION {{CsvFile(n, a, k) : a \in 0..(n - 1), k \in Kinds} : n \in SmallSizes}
  \cup UNION {{CsvFile(n, a, k) : a \in {batch_size - 1, n - 1}, k \in LargeKinds} :
                n \in LargeSizes}

DigitChar(d) == <<"0", "1", "2", "3", "4", "5", "6", "7", "8", "9">>[d + 1]

RECURSIVE IntToStr(_)
IntToStr(k) ==
  IF k < 10 THEN <<DigitChar(k)>> ELSE Append(IntToStr(k \div 10), DigitChar(k % 10))

\* a row with every field present and well-formed; its token numbers the row
GoodRow(k) ==
  [symbol |-> <<"A">>, brsymbol |-> <<"a">>, name |-> <<"N">>,
   exchange |-> <<"X">>, brexchange |-> <<"x">>, token |-> IntToStr(k + 1),
   expiry |-> <<"2", "8">>, strike |-> <<"1", ".", "5">>, lotsize |-> <<"5", "0">>,
   instrumenttype |-> <<"E">>, tick_size |-> <<".", "5">>]

SpecialRow(kind, k) ==
  CASE kind = "sentinel" ->
         [GoodRow(k) EXCEPT !.strike = <<"-", "1">>, !.lotsize = <<>>,
                            !.expiry = <<>>, !.tick_size = <<"-", "1">>]
    [] kind = "badstrike" -> [GoodRow(k) EXCEPT !.strike = <<"x">>]
    [] kind = "badlot" -> [GoodRow(k) EXCEPT !.lotsize = <<"1", ".", "5">>]
    [] kind = "badtick" -> [GoodRow(k) EXCEPT !.tick_size = <<"-">>]
    [] kind = "notype" -> [GoodRow(k) EXCEPT !.instrumenttype = <<>>]
    [] OTHER -> GoodRow(k)

\* data row k (0-based) of file c, as csv.DictReader yields it; every row
\* has all the columns of the header
CsvRow(c, k) == IF k = c.at THEN SpecialRow(c.kind, k) ELSE GoodRow(k)

\* every numeric field of every row converts
WellFormed(c) == c.exists /\ c.kind \notin BadKinds

\* ------------------------------------------------------------- the database
\* A table is the sequence of its rows in rowid order.
OldRecord(tok) ==
  [symbol |-> Some(<<"O">>), brsymbol |-> Some(<<"o">>), name |-> Some(<<"L">>),
   exchange |-> Some(<<"X">>), token |-> Some(tok), expiry |-> None,
   strike |-> None, lotsize |-> Some(1), instrumenttype |-> Some(<<"E">>),
   tick_size |-> None, created_at |-> 0, updated_at |-> 0,
   brexchange |-> Some(<<"x">>)]

EmptyDb ==
  [instruments |-> <<>>, instruments_fts |-> <<>>, instruments_refresh_log |-> <<>>]

\* a database left by earlier activity: two instruments, a search index that
\* also holds a rowid without instrument, one audit-log row
StaleDb ==
  [instruments |-> <<[id |-> 3, rec |-> OldRecord(<<"3">>)],
                     [id |-> 4, rec |-> OldRecord(<<"4">>)]>>,
   instruments_fts |-> <<[rowid |-> 3, symbol |-> Some(<<"O">>), name |-> Some(<<"L">>)],
                         [rowid |-> 9, symbol |-> Some(<<"Z">>), name |-> None]>>,
   instruments_refresh_log |->
     <<[exchange |-> "NSE", status |-> "completed", instrument_count |-> 2,
        refresh_started_at |-> 0, refresh_completed_at |-> 0]>>]

Databases == {EmptyDb, StaleDb}

\* the rowid SQLite gives the next row of a table with an INTEGER PRIMARY KEY
NextRowid(tbl) == IF tbl = <<>> THEN 1 ELSE tbl[Len(tbl)].id + 1

\* cursor.executemany(INSERT INTO instruments (...) VALUES (...), recs)
InsertMany(tbl, recs) ==
  tbl \o [k \in 1..Len(recs) |-> [id |-> NextRowid(tbl) + k - 1, rec |-> recs[k]]]

\* SELECT id, symbol, name FROM instruments
FtsProjection(tbl) ==
  [k \in 1..Len(tbl) |->
     [rowid |-> tbl[k].id, symbol |-> tbl[k].rec.symbol, name |-> tbl[k].rec.name]]

\* The sample query and the two breakdowns print columns with a width
\* ({row[0]:20s}); formatting None with a width raises TypeError.
SampleRaises(tbl) ==
  \E k \in 1..Len(tbl) :
    /\ k <= 5
    /\ (tbl[k].rec.symbol = None \/ tbl[k].rec.name = None \/ tbl[k].rec.exchange = None)

ExchangeCount(tbl, e) == Cardinality({k \in 1..Len(tbl) : tbl[k].rec.exchange = e})

\* the NULL exchange group is among the ten largest groups
ExchangeBreakdownRaises(tbl) ==
  /\ \E k \in 1..Len(tbl) : tbl[k].rec.exchange = None
  /\ Cardinality({e \in {tbl[k].rec.exchange : k \in 1..Len(tbl)} :
                    ExchangeCount(tbl, e) > ExchangeCount(tbl, None)}) < 10

TypeBreakdownRaises(tbl) == \E k \in 1..Len(tbl) : tbl[k].rec.instrumenttype = None

ReportRaises(tbl) ==
  SampleRaises(tbl) \/ ExchangeBreakdownRaises(tbl) \/ TypeBreakdownRaises(tbl)

\* ------------------------------------------------------------------- state
VARIABLES
  csv,                      \* the file at CSV_FILE
  disk,                     \* the committed contents of the database file
  instruments,              \* the tables as the open connection sees them
  instruments_fts,
  instruments_refresh_log,
  pc,                       \* position of the process in the script
  exit_status,              \* status passed to sys.exit, -1 while running
  i, total_rows, inserted,  \* locals of import_instruments
  batch,                    \* None while the name batch is unbound
  count, fts_count,
  now,                      \* datetime.now(): one value per run, later in a later run
  runs,                     \* number of processes started so far
  start,                    \* history: the database when this process started
  executed,                 \* history: the phases this process has executed
  trow, tout                \* input and result of the row transform on its own

vars == <<csv, disk, instruments, instruments_fts, instruments_refresh_log, pc,
          exit_status, i, total_rows, inserted, batch, count, fts_count, now,
          runs, start, executed, trow, tout>>

locals == <<i, total_rows, inserted, batch, count, fts_count>>
view == <<instruments, instruments_fts, instruments_refresh_log>>
frame == <<csv, now, runs, start, trow, tout>>

NoRow ==
  [symbol |-> <<>>, brsymbol |-> <<>>, name |-> <<>>, exchange |-> <<>>,
   brexchange |-> <<>>, token |-> <<>>, expiry |-> <<>>, strike |-> <<>>,
   lotsize |-> <<>>, instrumenttype |-> <<>>, tick_size |-> <<>>]

\* what the history keeps of a database: the number of instruments, the
\* search index and the audit log
Snapshot(db) ==
  [instrument_count |-> Len(db.instruments), instruments_fts |-> db.instruments_fts,
   instruments_refresh_log |-> db.instruments_refresh_log]

Init ==
  /\ csv \in CsvFiles
  /\ disk \in Databases
  /\ instruments = disk.instruments
  /\ instruments_fts = disk.instruments_fts
  /\ instruments_refresh_log = disk.instruments_refresh_log
  /\ pc = "clear"
  /\ exit_status = -1
  /\ i = 0 /\ total_rows = 0 /\ inserted = 0 /\ batch = None
  /\ count = 0 /\ fts_count = 0
  /\ now = 1
  /\ runs = 1
  /\ start = Snapshot(disk)
  /\ executed = <<>>
  /\ trow = NoRow
  /\ tout = None

\* conn.commit(): the connection's view becomes the committed contents
Committed ==
  [instruments |-> instruments', instruments_fts |-> instruments_fts',
   instruments_refresh_log |-> instruments_refresh_log']

\* An exception leaves import_instruments and reaches the handler of line
\* 171, which exits with status 1; the connection is never closed and what
\* it had not committed is lost with the process.
Raise ==
  /\ pc' = "exit"
  /\ exit_status' = 1
  /\ instruments' = disk.instruments
  /\ instruments_fts' = disk.instruments_fts
  /\ instruments_refresh_log' = disk.instruments_refresh_log
  /\ UNCHANGED disk

\* position of the for loop of line 44 when k rows have been consumed
LoopPc(k) ==
  IF k < csv.n THEN (IF k % batch_size = 0 THEN "boundary" ELSE "transform")
  ELSE "final"

\* variant: the DELETE is not committed
ClearInstruments_NoCommit ==
  /\ pc = "clear"
  /\ instruments' = <<>>
  /\ UNCHANGED <<instruments_fts, instruments_refresh_log, disk>>
  /\ pc' = "open"
  /\ executed' = Append(executed, "clear")
  /\ UNCHANGED <<exit_status, locals, frame>>

\* lines 22-26: DELETE FROM instruments; commit
ClearInstruments ==
  /\ pc = "clear"
  /\ instruments' = <<>>
  /\ UNCHANGED <<instruments_fts, instruments_refresh_log>>
  /\ disk' = Committed
  /\ pc' = "open"
  /\ executed' = Append(executed, "clear")
  /\ UNCHANGED <<exit_status, locals, frame>>

\* lines 28-42: open the file, count its rows, rewind
OpenCsv ==
  /\ pc = "open"
  /\ executed' = Append(executed, "open")
  /\ IF csv.exists
     THEN /\ total_rows' = csv.n
          /\ inserted' = 0
          /\ i' = 0
          /\ pc' = LoopPc(0)
          /\ UNCHANGED <<disk, view, exit_status, batch, count, fts_count>>
     ELSE /\ Raise
          /\ UNCHANGED locals
  /\ UNCHANGED frame

\* lines 45-52: at a row index that is a multiple of batch_size, commit (when
\* not at row 0) and start a new batch list
BatchBoundary ==
  /\ pc = "boundary"
  /\ UNCHANGED view
  /\ disk' = IF i > 0 THEN Committed ELSE disk
  /\ batch' = Some(<<>>)
  /\ pc' = "transform"
  /\ UNCHANGED <<exit_status, i, total_rows, inserted, count, fts_count, executed, frame>>

\* the end of the batch row k belongs to: the next multiple of batch_size or
\* the end of the file
BatchEnd(k) ==
  LET nxt == (k \div batch_size + 1) * batch_size
  IN IF nxt < csv.n THEN nxt ELSE csv.n

\* the rows among from..(to - 1) whose conversion raises
Failing(from, to) == {k \in from..(to - 1) : Raises(CsvRow(csv, k))}

Min(S) == CHOOSE x \in S : \A y \in S : x <= y

\* variant: a row whose conversion raises is skipped and the loop goes on
TransformRows_SkipBadRows ==
  /\ pc = "transform"
  /\ LET good == {k \in i..(BatchEnd(i) - 1) : ~Raises(CsvRow(csv, k))}
         idx == [k \in 1..Cardinality(good) |->
                   CHOOSE g \in good : Cardinality({h \in good : h < g}) = k - 1]
         recs == [k \in 1..Cardinality(good) |-> Transform(CsvRow(csv, idx[k]), now)]
     IN /\ batch' = Some(batch[1] \o recs)
        /\ inserted' = inserted + Cardinality(good)
  /\ i' = BatchEnd(i)
  /\ pc' = LoopPc(BatchEnd(i))
  /\ UNCHANGED <<disk, view, exit_status, total_rows, count, fts_count, executed, frame>>

\* lines 44, 57-74, iterated from row i up to the next batch boundary, the end
\* of the file or the first row whose conversion raises: build the record of
\* each row and append it to the batch
TransformRows ==
  /\ pc = "transform"
  /\ LET bad == Failing(i, BatchEnd(i))
         stop == IF bad = {} THEN BatchEnd(i) ELSE Min(bad)
         recs == [k \in 1..(stop - i) |-> Transform(CsvRow(csv, i + k - 1), now)]
     IN /\ batch' = Some(batch[1] \o recs)
        /\ inserted' = inserted + (stop - i)
        /\ i' = stop
        /\ IF bad = {}
           THEN /\ pc' = LoopPc(stop)
                /\ UNCHANGED <<disk, view, exit_status>>
           ELSE Raise
  /\ UNCHANGED <<total_rows, count, fts_count, executed, frame>>

\* variant: the final batch is inserted but not committed
InsertFinalBatch_NoCommit ==
  /\ pc = "final"
  /\ executed' = Append(executed, "insert")
  /\ IF batch = None
     THEN Raise
     ELSE /\ instruments' = IF batch[1] # <<>> THEN InsertMany(instruments, batch[1])
                            ELSE instruments
          /\ UNCHANGED <<instruments_fts, instruments_refresh_log, disk>>
          /\ pc' = "verify"
          /\ UNCHANGED exit_status
  /\ UNCHANGED <<locals, frame>>

\* lines 76-87: if batch: executemany(INSERT ...); commit
InsertFinalBatch ==
  /\ pc = "final"
  /\ executed' = Append(executed, "insert")
  /\ IF batch = None
     THEN Raise      \* UnboundLocalError: the loop body never ran
     ELSE /\ instruments' = IF batch[1] # <<>> THEN InsertMany(instruments, batch[1])
                            ELSE instruments
          /\ UNCHANGED <<instruments_fts, instruments_refresh_log>>
          /\ disk' = IF batch[1] # <<>> THEN Committed ELSE disk
          /\ pc' = "verify"
          /\ UNCHANGED exit_status
  /\ UNCHANGED <<locals, frame>>

\* lines 89-92: SELECT COUNT(*) FROM instruments
VerifyImport ==
  /\ pc = "verify"
  /\ count' = Len(instruments)
  /\ pc' = "rebuild"
  /\ UNCHANGED <<disk, view, exit_status, i, total_rows, inserted, batch, fts_count,
                 executed, frame>>

\* variant: the index is not cleared before it is repopulated
RebuildFts_NoClear ==
  /\ pc = "rebuild"
  /\ instruments_fts' = instruments_fts \o FtsProjection(instruments)
  /\ UNCHANGED <<instruments, instruments_refresh_log>>
  /\ disk' = Committed
  /\ fts_count' = Len(instruments_fts')
  /\ pc' = "log"
  /\ executed' = Append(executed, "rebuild")
  /\ UNCHANGED <<exit_status, i, total_rows, inserted, batch, count, frame>>

\* lines 94-105: DELETE FROM instruments_fts; INSERT ... SELECT; commit; count
RebuildFts ==
  /\ pc = "rebuild"
  /\ instruments_fts' = FtsProjection(instruments)
  /\ UNCHANGED <<instruments, instruments_refresh_log>>
  /\ disk' = Committed
  /\ fts_count' = Len(instruments_fts')
  /\ pc' = "log"
  /\ executed' = Append(executed, "rebuild")
  /\ UNCHANGED <<exit_status, i, total_rows, inserted, batch, count, frame>>

LogRow(n, t) ==
  [exchange |-> "CSV_UPLOAD", status |-> "completed", instrument_count |-> n,
   refresh_started_at |-> t, refresh_completed_at |-> t]

\* lines 107-115: INSERT INTO instruments_refresh_log; commit
UpdateRefreshLog ==
  /\ pc = "log"
  /\ instruments_refresh_log' = Append(instruments_refresh_log, LogRow(count, now))
  /\ UNCHANGED <<instruments, instruments_fts>>
  /\ disk' = Committed
  /\ pc' = "report"
  /\ executed' = Append(executed, "log")
  /\ UNCHANGED <<exit_status, locals, frame>>

\* lines 117-150: the sample and the two breakdowns
Report ==
  /\ pc = "report"
  /\ executed' = Append(executed, "report")
  /\ IF ReportRaises(instruments)
     THEN Raise
     ELSE /\ pc' = "close"
          /\ UNCHANGED <<disk, view, exit_status>>
  /\ UNCHANGED <<locals, frame>>

\* lines 152-170: close the connection, print the summary, sys.exit(0)
CloseAndExit ==
  /\ pc = "close"
  /\ instruments' = disk.instruments
  /\ instruments_fts' = disk.instruments_fts
  /\ instruments_refresh_log' = disk.instruments_refresh_log
  /\ pc' = "exit"
  /\ exit_status' = 0
  /\ executed' = Append(executed, "close")
  /\ UNCHANGED <<disk, locals, frame>>

\* the script is started again on the same file (lines 167-169, 12-20)
Rerun ==
  /\ pc = "exit"
  /\ runs < MaxRuns
  /\ runs' = runs + 1
  /\ now' = now + 1
  /\ start' = Snapshot(disk)
  /\ executed' = <<>>
  /\ instruments' = disk.instruments
  /\ instruments_fts' = disk.instruments_fts
  /\ instruments_refresh_log' = disk.instruments_refresh_log
  /\ pc' = "clear"
  /\ exit_status' = -1
  /\ i' = 0 /\ total_rows' = 0 /\ inserted' = 0 /\ batch' = None
  /\ count' = 0 /\ fts_count' = 0
  /\ UNCHANGED <<csv, disk, trow, tout>>

Next ==
  \/ ClearInstruments
  \/ OpenCsv
  \/ BatchBoundary
  \/ TransformRows
  \/ InsertFinalBatch
  \/ VerifyImport
  \/ RebuildFts
  \/ UpdateRefreshLog
  \/ Report
  \/ CloseAndExit
  \/ Rerun

Spec == Init /\ [][Next]_vars

\* ------------------------------------------------ the row transform on its own
\* the characters of the fields drawn: a sign, a decimal point, digits,
\* whitespace and a character no number contains
Alphabet == {"-", ".", "0", "1", "5", " ", "x"}

RECURSIVE StringsOfLen(_)
StringsOfLen(n) ==
  IF n = 0 THEN {<<>>}
  ELSE {Append(s, c) : s \in StringsOfLen(n - 1), c \in Alphabet}

FieldStrings == UNION {StringsOfLen(n) : n \in 0..MaxLen}

\* a row built from two field strings: every column takes every string, the
\* numeric columns strike and lotsize independently of each other
RowOf(s, t) ==
  [symbol |-> s, brsymbol |-> t, name |-> s, exchange |-> t, brexchange |-> s,
   token |-> t, expiry |-> t, strike |-> t, lotsize |-> s, instrumenttype |-> s,
   tick_size |-> s]

InitRow ==
  /\ \E s \in FieldStrings, t \in FieldStrings : trow = RowOf(s, t)
  /\ tout = None
  /\ pc = "row"
  /\ csv = [exists |-> FALSE, n |-> 0, at |-> -1, kind |-> "good"]
  /\ disk = EmptyDb
  /\ instruments = <<>> /\ instruments_fts = <<>> /\ instruments_refresh_log = <<>>
  /\ exit_status = -1
  /\ i = 0 /\ total_rows = 0 /\ inserted = 0 /\ batch = Some(<<>>)
  /\ count = 0 /\ fts_count = 0
  /\ now = 1
  /\ runs = 1
  /\ start = Snapshot(EmptyDb)
  /\ executed = <<>>

\* lines 57-71 applied to the row trow: the record, or the exception
BuildRecord ==
  /\ pc = "row"
  /\ IF Raises(trow)
     THEN /\ pc' = "raised"
          /\ tout' = None
     ELSE /\ pc' = "record"
          /\ tout' = Some(Transform(trow, now))
  /\ UNCHANGED <<csv, disk, view, exit_status, locals, now, runs, start, executed, trow>>

NextRow == BuildRecord

SpecRow == InitRow /\ [][NextRow]_vars

\* ------------------------------------------------------------------ properties
Did(phase) == \E k \in 1..Len(executed) : executed[k] = phase

\* the phases of a run that reaches its end, in order
PhaseOrder == <<"clear", "open", "insert", "rebuild", "log", "report", "close">>

IsPrefix(s, t) == Len(s) <= Len(t) /\ \A k \in 1..Len(s) : s[k] = t[k]

\* the instruments rows a complete import of the first m rows of the file gives
Imported(tbl, m) ==
  /\ Len(tbl) = m
  /\ \A k \in 1..Len(tbl) :
       k <= m => tbl[k].rec = Transform(CsvRow(csv, k - 1), tbl[k].rec.created_at)

\* C1: after a run on a CSV with N data rows whose numeric fields are all
\* well-formed, instruments holds exactly N rows, one per data row.
C1_RowCountEqualsCsvRows ==
  (pc = "exit" /\ WellFormed(csv)) => Imported(disk.instruments, csv.n)

\* C2: after a run that reached the index rebuild, instruments_fts has as many
\* rows as instruments, the same set of rowids, and each index entry carries
\* its instrument's symbol and name, whatever the index held before.
C2_FtsAligned ==
  (pc \in {"log", "report", "close"} \/ (pc = "exit" /\ Did("rebuild"))) =>
    /\ Len(disk.instruments_fts) = Len(disk.instruments)
    /\ {disk.instruments_fts[k].rowid : k \in 1..Len(disk.instruments_fts)}
         = {disk.instruments[k].id : k \in 1..Len(disk.instruments)}
    /\ \A k \in 1..Len(disk.instruments_fts) :
         \E j \in 1..Len(disk.instruments) :
           /\ disk.instruments[j].id = disk.instruments_fts[k].rowid
           /\ disk.instruments[j].rec.symbol = disk.instruments_fts[k].symbol
           /\ disk.instruments[j].rec.name = disk.instruments_fts[k].name

\* a run rebuilt an index that held a rowid without instrument
C2_Witness ==
  /\ pc = "exit" /\ Did("rebuild") /\ runs = 1
  /\ \E k \in 1..Len(start.instruments_fts) : start.instruments_fts[k].rowid = 9
  /\ Len(disk.instruments) >= 2
  /\ fts_count = Len(disk.instruments)

\* C3: one run on a CSV whose numeric fields are all well-formed (zero data
\* rows included) appends exactly one audit-log row, leaves the earlier rows
\* as they were, and the new row has exchange CSV_UPLOAD, status completed and
\* instrument_count equal to the final number of instruments.
C3_OneLogRowPerRun ==
  (pc = "exit" /\ WellFormed(csv)) =>
    LET log == disk.instruments_refresh_log
        old == start.instruments_refresh_log
    IN /\ Len(log) = Len(old) + 1
       /\ SubSeq(log, 1, Len(old)) = old
       /\ log[Len(log)].exchange = "CSV_UPLOAD"
       /\ log[Len(log)].status = "completed"
       /\ log[Len(log)].instrument_count = Len(disk.instruments)

\* C4: two successive runs on the same CSV leave instruments with the same
\* number of rows after the second run as after the first, no row of the first
\* run among them, and exactly two new audit-log rows in total.
C4_RerunReplaces ==
  (pc = "exit" /\ runs = 2 /\ WellFormed(csv)) =>
    /\ Len(disk.instruments) = start.instrument_count
    /\ \A k \in 1..Len(disk.instruments) : disk.instruments[k].rec.created_at = now
    /\ Cardinality({k \in 1..Len(disk.instruments_refresh_log) :
                      disk.instruments_refresh_log[k].refresh_started_at >= 1}) = 2

\* C5: the record of a row is the one the data model prescribes: lotsize is 1
\* for '-1' and '' and the parsed integer otherwise, never null; strike and
\* tick_size are null for '-1' and '' and the parsed number otherwise; expiry
\* is null for '-1' and '' and the string otherwise; the seven text columns
\* are null when empty and the unchanged string otherwise.
C5_RowTransform ==
  pc = "record" =>
    LET r == tout[1]
        absent(s) == s = <<"-", "1">> \/ s = <<>>
        text(s) == IF s = <<>> THEN None ELSE Some(s)
    IN /\ r.lotsize # None
       /\ r.lotsize = IF absent(trow.lotsize) THEN Some(1) ELSE Some(PyInt(trow.lotsize))
       /\ r.strike = IF absent(trow.strike) THEN None ELSE Some(PyFloat(trow.strike))
       /\ r.tick_size = IF absent(trow.tick_size) THEN None
                        ELSE Some(PyFloat(trow.tick_size))
       /\ r.expiry = IF absent(trow.expiry) THEN None ELSE Some(trow.expiry)
       /\ r.symbol = text(trow.symbol)
       /\ r.brsymbol = text(trow.brsymbol)
       /\ r.name = text(trow.name)
       /\ r.exchange = text(trow.exchange)
       /\ r.brexchange = text(trow.brexchange)
       /\ r.token = text(trow.token)
       /\ r.instrumenttype = text(trow.instrumenttype)
       \* parsed values of some fields, written out
       /\ trow.lotsize = <<"1", "5">> => r.lotsize = Some(15)
       /\ trow.lotsize = <<"-", "5">> => r.lotsize = Some(-5)
       /\ trow.lotsize = <<" ", "1">> => r.lotsize = Some(1)
       /\ trow.lotsize = <<"0", "5">> => r.lotsize = Some(5)
       /\ trow.strike = <<".", "5">> => r.strike = Some([num |-> 5, scale |-> 1])
       /\ trow.strike = <<"1", ".">> => r.strike = Some([num |-> 1, scale |-> 0])
       /\ trow.strike = <<"-", "5">> => r.strike = Some([num |-> -5, scale |-> 0])
       /\ trow.strike = <<"1", "0">> => r.strike = Some([num |-> 10, scale |-> 0])
       /\ trow.tick_size = <<"5">> => r.tick_size = Some([num |-> 5, scale |-> 0])

\* the record of a row with lotsize '' and strike and expiry '-1'
C5_Witness ==
  /\ pc = "record"
  /\ trow.lotsize = <<>> /\ trow.strike = <<"-", "1">> /\ trow.expiry = <<"-", "1">>
  /\ tout[1].lotsize = Some(1) /\ tout[1].strike = None /\ tout[1].expiry = None

\* C6: a malformed strike, lotsize or tick_size aborts the run at that row: no
\* later row is transformed, the index rebuild and the audit-log insert are
\* not executed, and the process exits with status 1; it exits with status 0
\* only when every phase through the report and the close has finished.
C6_AbortOnMalformedRow ==
  /\ (csv.exists /\ csv.kind \in BadKinds) =>
       /\ i <= csv.at /\ inserted <= csv.at
       /\ ~Did("insert") /\ ~Did("rebuild") /\ ~Did("log")
       /\ disk.instruments_fts = start.instruments_fts
       /\ disk.instruments_refresh_log = start.instruments_refresh_log
       /\ pc = "exit" => (exit_status = 1 /\ i = csv.at)
  /\ (pc = "exit" /\ exit_status = 0) => executed = PhaseOrder
  /\ pc = "exit" => exit_status \in {0, 1}

\* a run stopped at a malformed row that has rows after it
C6_Witness ==
  /\ pc = "exit" /\ exit_status = 1
  /\ csv.kind \in BadKinds /\ csv.at + 1 < csv.n
  /\ i = csv.at /\ executed = <<"clear", "open">>

\* C7: at every batch boundary reached while reading (row index i > 0 with
\* i % 1000 = 0), all rows with index below i are inserted into instruments
\* and committed before row i is transformed.
C7_BatchesInsertedAndCommitted ==
  (pc = "transform" /\ i > 0) => Imported(disk.instruments, i)

\* C8: when a run fails at a row that lies after one or more complete batches,
\* the rows of those batches remain committed in instruments after the exit.
C8_EarlierBatchesRemain ==
  (pc = "exit" /\ csv.kind \in BadKinds /\ csv.at >= batch_size) =>
    Imported(disk.instruments, (csv.at \div batch_size) * batch_size)

\* C9: the phases of a run are linear and never interleave: the delete is
\* committed before the CSV is opened, the index rebuild starts only after the
\* last insert is committed, the audit-log insert comes only after the rebuild
\* is committed, the report only after the audit-log commit, and no phase is
\* repeated within a run.
C9_LinearPhases ==
  /\ IsPrefix(executed, PhaseOrder)
  /\ pc = "open" => (executed = <<"clear">> /\ disk.instruments = <<>>)
  /\ pc \in {"boundary", "transform", "final"} => executed = <<"clear", "open">>
  /\ pc \in {"verify", "rebuild"} =>
       (executed = <<"clear", "open", "insert">> /\ disk.instruments = instruments)
  /\ pc = "log" =>
       /\ executed = <<"clear", "open", "insert", "rebuild">>
       /\ disk.instruments_fts = instruments_fts
       /\ disk.instruments_fts = FtsProjection(disk.instruments)
  /\ pc = "report" =>
       /\ executed = <<"clear", "open", "insert", "rebuild", "log">>
       /\ disk.instruments_refresh_log = instruments_refresh_log
       /\ Len(disk.instruments_refresh_log) = Len(start.instruments_refresh_log) + 1

\* a run over more than one batch that went through every phase
C9_Witness ==
  pc = "exit" /\ exit_status = 0 /\ executed = PhaseOrder /\ csv.n > batch_size

====
